---------------------------- MODULE Spec2Model ----------------------------
(***************************************************************************)
(* A model of the setsuna-bff GraphQL gateway (src/index.js and its older  *)
(* revision src/unnamed/part_000): the resolvers that forward each typed   *)
(* operation to the backend over HTTP, the error handler that turns a      *)
(* backend failure into the client's error, and the scheduleOperation /    *)
(* operationFinished publish-subscribe pair.                                *)
(*                                                                         *)
(* JavaScript values are records tagged by t: "undefined", "string" (s is  *)
(* the sequence of its characters), "object" (f maps property names to     *)
(* values) and "array" (items).                                            *)
(***************************************************************************)
EXTENDS Naturals, Sequences, FiniteSets, Bags

VARIABLES
    rev,          \* which revision of the server is deployed
    invocations,  \* bag of the resolver invocations in progress or resolved
    calls,        \* calls[i]: the i-th scheduleOperation call and its answer
    timers,       \* the pending setTimeout callbacks, with the time left
    published,    \* the OPERATION_FINISHED events published so far
    handles,      \* handles[h]: the h-th async iterator ever created, and
                  \* how many of its events went out on its socket
    subscribers,  \* the iterators listening on OPERATION_FINISHED
    inbox,        \* inbox[h]: the events pushed to iterator h, in order
    server        \* whether the server runs or was drained, and when

dispatchVars == <<rev, invocations>>
brokerVars == <<calls, timers, published, handles, subscribers, inbox, server>>
vars == <<rev, invocations, calls, timers, published, handles, subscribers,
          inbox, server>>

-----------------------------------------------------------------------------
(* Bounds of the model *)

\* at most this many resolver invocations are in the bag at once (they share
\* no state: each runs its resolver on its own request and its own answer)
MaxInFlight == 1

\* scheduleOperation is called at most this many times
MaxSchedules == 2

\* at most this many subscriptions are ever opened
MaxHandles == 2

-----------------------------------------------------------------------------
(* JavaScript values *)

Undefined == [t |-> "undefined"]
Str(s) == [t |-> "string", s |-> s]
Obj(f) == [t |-> "object", f |-> f]
Arr(items) == [t |-> "array", items |-> items]
EmptyObj == Obj([k \in {} |-> Undefined])

\* v.k : the property k of an object; undefined when v has no such property
Get(v, k) == IF v.t = "object" /\ k \in DOMAIN v.f THEN v.f[k] ELSE Undefined

\* v?.k : as v.k, and undefined when v itself is undefined
OptGet(v, k) == IF v.t = "undefined" THEN Undefined ELSE Get(v, k)

\* String(v) as string concatenation and template literals apply it
ToStr(v) ==
    IF v.t = "string" THEN v.s
    ELSE IF v.t = "undefined" THEN <<"u","n","d","e","f","i","n","e","d">>
    ELSE <<"[","o","b","j","e","c","t","]">>


-----------------------------------------------------------------------------
(* The resolvers of the two revisions *)

Revisions == {"index", "part_000"}

vaporUrl == "http://localhost:8080/"

\* One row per resolver of src/index.js.  args: the arguments the schema
\* declares; wrapped: whether they arrive inside one `input` object; auth:
\* whether the resolver reads the inbound authorization header and sets the
\* outbound one; payload: what is posted ("fields": an object of the named
\* arguments, "input": the input object itself, "none": no body);
\* response: what is returned ("pick": an object of the named properties of
\* response.data, "check": { success: 'True', user }, "data": response.data).
IndexTable ==
    [post_login |->
        [method |-> "POST", path |-> "login", auth |-> FALSE, wrapped |-> FALSE,
         args |-> {"email", "password"},
         payload |-> [kind |-> "fields", fields |-> {"email", "password"}],
         response |-> [kind |-> "pick", fields |-> {"token"}]],
     post_matching |->
        [method |-> "POST", path |-> "matching", auth |-> TRUE, wrapped |-> FALSE,
         args |-> {"is_leave"},
         payload |-> [kind |-> "fields", fields |-> {"is_leave"}],
         response |-> [kind |-> "pick",
                       fields |-> {"user_count", "is_matched", "room_id",
                                   "start_time", "setuna_time"}]],
     post_ready |->
        [method |-> "POST", path |-> "ready", auth |-> TRUE, wrapped |-> FALSE,
         args |-> {"room_id"},
         payload |-> [kind |-> "fields", fields |-> {"room_id"}],
         response |-> [kind |-> "pick", fields |-> {"difftime"}]],
     post_register |->
        [method |-> "POST", path |-> "register", auth |-> FALSE, wrapped |-> FALSE,
         args |-> {"email", "name", "password"},
         payload |-> [kind |-> "fields", fields |-> {"email", "name", "password"}],
         response |-> [kind |-> "pick", fields |-> {"token"}]],
     post_result |->
        [method |-> "POST", path |-> "result", auth |-> TRUE, wrapped |-> FALSE,
         args |-> {"room_id", "score"},
         payload |-> [kind |-> "fields", fields |-> {"room_id", "score"}],
         response |-> [kind |-> "pick", fields |-> {"result"}]],
     check |->
        [method |-> "GET", path |-> "check", auth |-> TRUE, wrapped |-> FALSE,
         args |-> {},
         payload |-> [kind |-> "none", fields |-> {}],
         response |-> [kind |-> "check", fields |-> {"user"}]],
     get_rooms |->
        [method |-> "GET", path |-> "rooms", auth |-> FALSE, wrapped |-> FALSE,
         args |-> {},
         payload |-> [kind |-> "none", fields |-> {}],
         response |-> [kind |-> "data", fields |-> {}]],
     get_userID |->
        [method |-> "GET", path |-> "user", auth |-> TRUE, wrapped |-> FALSE,
         args |-> {},
         payload |-> [kind |-> "none", fields |-> {}],
         response |-> [kind |-> "pick", fields |-> {"user_id"}]]]

\* One row per resolver of src/unnamed/part_000.
Part000Table ==
    [post_login |->
        [method |-> "POST", path |-> "login", auth |-> FALSE, wrapped |-> TRUE,
         args |-> {"email", "password"},
         payload |-> [kind |-> "input", fields |-> {}],
         response |-> [kind |-> "pick", fields |-> {"token"}]],
     post_register |->
        [method |-> "POST", path |-> "register", auth |-> FALSE, wrapped |-> TRUE,
         args |-> {"email", "name", "password"},
         payload |-> [kind |-> "input", fields |-> {}],
         response |-> [kind |-> "pick", fields |-> {"token"}]],
     post_ready |->
        [method |-> "POST", path |-> "ready", auth |-> FALSE, wrapped |-> FALSE,
         args |-> {},
         payload |-> [kind |-> "none", fields |-> {}],
         response |-> [kind |-> "pick", fields |-> {"message"}]],
     post_shake |->
        [method |-> "POST", path |-> "shake", auth |-> FALSE, wrapped |-> TRUE,
         args |-> {"power"},
         payload |-> [kind |-> "input", fields |-> {}],
         response |-> [kind |-> "pick", fields |-> {"message"}]],
     check |->
        [method |-> "GET", path |-> "check", auth |-> TRUE, wrapped |-> FALSE,
         args |-> {},
         payload |-> [kind |-> "none", fields |-> {}],
         response |-> [kind |-> "check", fields |-> {"user"}]],
     get_ready |->
        [method |-> "GET", path |-> "ready", auth |-> TRUE, wrapped |-> FALSE,
         args |-> {},
         payload |-> [kind |-> "none", fields |-> {}],
         response |-> [kind |-> "pick", fields |-> {"ready"}]],
     get_result |->
        [method |-> "GET", path |-> "result", auth |-> TRUE, wrapped |-> TRUE,
         args |-> {"room_id", "score", "user_id"},
         payload |-> [kind |-> "none", fields |-> {}],
         response |-> [kind |-> "pick", fields |-> {"result"}]]]

Table(r) == IF r = "index" THEN IndexTable ELSE Part000Table

Operations(r) == DOMAIN Table(r)


-----------------------------------------------------------------------------
(* Inputs: inbound requests, arguments, backend answers *)

Tokens == {<<"t","1">>, <<"t","2">>}

\* the inbound request as the resolvers see it: the header table that node
\* keeps under Symbol(kHeaders), its names already in lower case
ReqWith(headers) == Obj([kHeaders |-> Obj(headers)])
NoCredential == ReqWith([k \in {"host"} |-> Str(<<"h">>)])
Credential(tok) ==
    ReqWith([k \in {"host", "authorization"} |->
                IF k = "host" THEN Str(<<"h">>) ELSE Str(tok)])
InboundRequests == {NoCredential} \cup {Credential(tok) : tok \in Tokens}

ArgValues == {"x", "y"}

\* the args object graphql hands the resolver: every declared argument set,
\* here to a string made of the argument's name and v
ArgsOf(d, v) ==
    IF d.wrapped
    THEN Obj([i \in {"input"} |-> Obj([k \in d.args |-> Str(<<k, v>>)])])
    ELSE Obj([k \in d.args |-> Str(<<k, v>>)])

ResponseFields ==
    {"token", "user_count", "is_matched", "room_id", "start_time",
     "setuna_time", "difftime", "result", "user", "user_id", "message",
     "ready"}

\* bodies of a 2xx answer: an object whose every property holds its own
\* name, an object without properties, and a list of rooms
BodyObject == Obj([k \in ResponseFields |-> Str(<<k>>)])
BodyRooms == Arr(<<Str(<<"r","1">>), Str(<<"r","2">>)>>)
SuccessResponses ==
    {Obj([data |-> b]) : b \in {BodyObject, EmptyObj, BodyRooms}}

Reasons == {<<"r","1">>, <<"r","2">>}
Messages == {<<"m">>}

\* what axios rejects with: an error without a response (the backend was not
\* reached), or one whose response.data is the failure body: an object with
\* or without reason and message, or text that is no object
TransportError == EmptyObj
FailureBodies ==
    {EmptyObj, Str(<<"<","h","t","m","l",">">>)}
    \cup {Obj([reason |-> Str(r)]) : r \in Reasons}
    \cup {Obj([message |-> Str(m)]) : m \in Messages}
    \cup {Obj([reason |-> Str(r), message |-> Str(m)]) :
            r \in {<<"r","1">>}, m \in Messages}
AxiosErrors ==
    {TransportError}
    \cup {Obj([response |-> Obj([data |-> b])]) : b \in FailureBodies}

-----------------------------------------------------------------------------
(* The helpers and the resolvers *)

\* getAuthorizationHeader(req): headers['authorization'] of the kHeaders table
getAuthorizationHeader(req) == Get(Get(req, "kHeaders"), "authorization")

\* errorHandler, were it to prefer the body's message to its reason
errorHandlerPrefersMessage(error) ==
    LET data == OptGet(Get(error, "response"), "data")
        text == IF OptGet(data, "message").t # "undefined"
                THEN OptGet(data, "message") ELSE OptGet(data, "reason")
    IN  [completion |-> "throw", value |-> Str(ToStr(text))]

\* errorHandler, were it to log the reason and return
errorHandlerReturns(error) ==
    [completion |-> "normal", value |-> Undefined]

\* errorHandler(error): throws Error(`${error.response?.data?.reason}`)
errorHandler(error) ==
    LET errorReason == OptGet(OptGet(Get(error, "response"), "data"), "reason")
    IN  [completion |-> "throw", value |-> Str(ToStr(errorReason))]

\* the literal the resolvers put before the inbound header's value
BearerPrefix == <<" ","B","e","a","r","e","r"," ">>

\* the config argument of the axios call: the Authorization header
AuthConfig(authorization) ==
    Obj([Authorization |-> Str(BearerPrefix \o ToStr(authorization))])

\* the body the resolver posts
requestMapper(d, args) ==
    IF d.payload.kind = "fields"
    THEN Obj([k \in d.payload.fields |-> Get(args, k)])
    ELSE IF d.payload.kind = "input" THEN Get(args, "input")
    ELSE Undefined

\* the returned value, were get_rooms to read a rooms property of the body
responseMapperReadsRooms(d, response) ==
    LET data == Get(response, "data")
    IN  IF d.response.kind = "pick"
        THEN Obj([k \in d.response.fields |-> Get(data, k)])
        ELSE IF d.response.kind = "check"
        THEN Obj([k \in {"success", "user"} |->
                    IF k = "success" THEN Str(<<"T","r","u","e">>)
                    ELSE Get(data, "user")])
        ELSE Get(data, "rooms")

\* the value the resolver returns from the backend's response
responseMapper(d, response) ==
    LET data == Get(response, "data")
    IN  IF d.response.kind = "pick"
        THEN Obj([k \in d.response.fields |-> Get(data, k)])
        ELSE IF d.response.kind = "check"
        THEN Obj([k \in {"success", "user"} |->
                    IF k = "success" THEN Str(<<"T","r","u","e">>)
                    ELSE Get(data, "user")])
        ELSE data

\* the axios call, were every resolver to pass the inbound header on
AxiosCallAlwaysForwards(d, args, req) ==
    [method |-> d.method, base |-> vaporUrl, path |-> d.path,
     data |-> requestMapper(d, args),
     headers |-> AuthConfig(getAuthorizationHeader(req))]

\* the axios call of a resolver
AxiosCall(d, args, req) ==
    [method |-> d.method, base |-> vaporUrl, path |-> d.path,
     data |-> requestMapper(d, args),
     headers |-> IF d.auth THEN AuthConfig(getAuthorizationHeader(req))
                 ELSE EmptyObj]

\* a resolver from its call up to its await: the header is read (when the
\* resolver reads it) and the axios call is issued
Start(r, op, req, args) ==
    LET d == Table(r)[op]
    IN  [op |-> op, req |-> req, args |-> args, pc |-> "awaiting", calls |-> 1,
         request |-> AxiosCall(d, args, req),
         outcome |-> [state |-> "pending", value |-> Undefined],
         result |-> Undefined, error |-> Undefined]

\* the resolver after its axios call resolved with inv.outcome.value
OnFulfilled(r, inv) ==
    [inv EXCEPT !.pc = "returned",
                !.result = responseMapper(Table(r)[inv.op], inv.outcome.value)]

\* the catch block, were it to issue the call once more before giving up
OnRejectedRetries(r, inv) ==
    IF inv.calls < 2
    THEN [inv EXCEPT !.calls = @ + 1,
                     !.outcome = [state |-> "pending", value |-> Undefined]]
    ELSE [inv EXCEPT !.pc = "thrown",
                     !.error = errorHandler(inv.outcome.value).value]

\* the resolver's catch block after its axios call rejected with
\* inv.outcome.value: errorHandler(error), and a return of undefined should
\* that not throw
OnRejected(r, inv) ==
    LET c == errorHandler(inv.outcome.value)
    IN  IF c.completion = "throw"
        THEN [inv EXCEPT !.pc = "thrown", !.error = c.value]
        ELSE [inv EXCEPT !.pc = "returned", !.result = Undefined]

Replace(bag, old, new) == (bag (-) SetToBag({old})) (+) SetToBag({new})

\* a client invokes operation op
Invoke(op, req, v) ==
    /\ server.state = "running"
    /\ op \in Operations(rev)
    /\ BagCardinality(invocations) < MaxInFlight
    /\ invocations' =
         invocations (+) SetToBag({Start(rev, op, req, ArgsOf(Table(rev)[op], v))})
    /\ UNCHANGED <<rev, brokerVars>>

\* the backend answers the call of inv with a 2xx response
BackendSucceeds(inv, response) ==
    /\ BagIn(inv, invocations)
    /\ inv.pc = "awaiting"
    /\ LET got == [inv EXCEPT !.outcome = [state |-> "fulfilled", value |-> response]]
       IN  invocations' = Replace(invocations, inv, OnFulfilled(rev, got))
    /\ UNCHANGED <<rev, brokerVars>>

\* a failed call, were the catch block to drop the timers still pending
BackendFailsDropsTimers(inv, error) ==
    /\ BagIn(inv, invocations)
    /\ inv.pc = "awaiting"
    /\ LET got == [inv EXCEPT !.outcome = [state |-> "rejected", value |-> error]]
       IN  invocations' = Replace(invocations, inv, OnRejected(rev, got))
    /\ timers' = {}
    /\ UNCHANGED <<rev, calls, published, handles, subscribers, inbox, server>>

\* the call of inv fails: a failure status with a body, or no response
BackendFails(inv, error) ==
    /\ BagIn(inv, invocations)
    /\ inv.pc = "awaiting"
    /\ LET got == [inv EXCEPT !.outcome = [state |-> "rejected", value |-> error]]
       IN  invocations' = Replace(invocations, inv, OnRejected(rev, got))
    /\ UNCHANGED <<rev, brokerVars>>

\* the request context of a resolved invocation is discarded
Discard(inv) ==
    /\ BagIn(inv, invocations)
    /\ inv.pc # "awaiting"
    /\ invocations' = invocations (-) SetToBag({inv})
    /\ UNCHANGED <<rev, brokerVars>>

-----------------------------------------------------------------------------
(* scheduleOperation and the operationFinished subscription *)

\* the delay of the setTimeout of mockLongLastingOperation
Delay == 1000

\* time passes in steps of half the delay
TickMs == Delay \div 2

Names == {<<"A">>, <<"B">>}
Clients == {"c1", "c2"}

\* the part of the state the pubSub object and the timers live in
World ==
    [timers |-> timers, published |-> published,
     subscribers |-> subscribers, inbox |-> inbox]

\* publish, were it to stop after the first listener
publishToFirst(w, event) ==
    LET n == Len(w.published) + 1
        first == {h \in w.subscribers : \A g \in w.subscribers : h <= g}
    IN  [w EXCEPT
            !.published = Append(@, event),
            !.inbox = [h \in DOMAIN @ |->
                         IF h \in first
                         THEN Append(@[h], [ev |-> n, payload |-> event.payload])
                         ELSE @[h]]]

\* pubSub.publish('OPERATION_FINISHED', payload): the payload is handed, in
\* this one call, to every iterator listening.  In published and inbox the
\* payload travels with ev, the number of the event, and with what the
\* properties below need: the call whose timer fired and who listened.
publish(w, event) ==
    LET n == Len(w.published) + 1
    IN  [w EXCEPT
            !.published = Append(@, event),
            !.inbox = [h \in DOMAIN @ |->
                         IF h \in w.subscribers
                         THEN Append(@[h], [ev |-> n, payload |-> event.payload])
                         ELSE @[h]]]

\* the callback, were it to publish its event twice
callbackPublishesTwice(w, tm) ==
    LET event == [payload |-> [name |-> tm.name],
                  call |-> tm.call, subs |-> w.subscribers]
    IN  publish(publish(w, event), event)

\* the callback given to setTimeout, for the timer tm.  The payload is
\* { operationFinished: { name, endDate } }; endDate, the text of the day the
\* callback runs on, is the same for every event here and is left out.
callback(w, tm) ==
    publish(w, [payload |-> [name |-> tm.name],
                call |-> tm.call, subs |-> w.subscribers])

\* mockLongLastingOperation, were it to run the callback itself
mockLongLastingOperationSync(w, call, name) ==
    callback(w, [call |-> call, name |-> name, remaining |-> 0])

\* mockLongLastingOperation, were name a variable all its callbacks share
mockLongLastingOperationSharedName(w, call, name) ==
    [w EXCEPT !.timers = {[tm EXCEPT !.name = name] : tm \in @}
                            \cup {[call |-> call, name |-> name,
                                   remaining |-> Delay]}]

\* mockLongLastingOperation(name): setTimeout(callback, 1000)
mockLongLastingOperation(w, call, name) ==
    [w EXCEPT !.timers = @ \cup {[call |-> call, name |-> name,
                                  remaining |-> Delay]}]

\* the string scheduleOperation returns
Acknowledgement(name) ==
    <<"O","p","e","r","a","t","i","o","n",":"," ">> \o name
        \o <<" ","s","c","h","e","d","u","l","e","d","!">>

\* asyncIterator, were the pubSub to replay what it published to a newcomer
asyncIteratorReplays(w, h) ==
    [w EXCEPT !.subscribers = @ \cup {h},
              !.inbox = Append(@, [e \in DOMAIN w.published |->
                                     [ev |-> e, payload |-> w.published[e].payload]])]

\* pubSub.asyncIterator(['OPERATION_FINISHED']): the new iterator h listens
\* from now on and starts with nothing queued
asyncIterator(w, h) ==
    [w EXCEPT !.subscribers = @ \cup {h}, !.inbox = Append(@, <<>>)]

\* return(), were it to clear the timers still pending
iteratorReturnCancels(w, hs) ==
    [w EXCEPT !.subscribers = @ \ hs, !.timers = {}]

\* the iterator's return(), which graphql-ws calls when the client completes
\* the subscription or its socket closes: h listens no more
iteratorReturn(w, hs) ==
    [w EXCEPT !.subscribers = @ \ hs]

SetWorld(w) ==
    /\ timers' = w.timers
    /\ published' = w.published
    /\ subscribers' = w.subscribers
    /\ inbox' = w.inbox

\* Mutation.scheduleOperation(_, { name })
scheduleOperation(name) ==
    /\ server.state = "running"
    /\ Len(calls) < MaxSchedules
    /\ SetWorld(mockLongLastingOperation(World, Len(calls) + 1, name))
    /\ calls' = Append(calls, [name |-> name, ack |-> Acknowledgement(name),
                               before |-> Len(published)])
    /\ UNCHANGED <<dispatchVars, handles, server>>

\* a timer whose delay has elapsed runs its callback; among the timers that
\* are due, any may be the one that runs
TimerFires(tm) ==
    /\ tm \in timers
    /\ tm.remaining = 0
    /\ SetWorld(callback([World EXCEPT !.timers = @ \ {tm}], tm))
    /\ UNCHANGED <<dispatchVars, calls, handles, server>>

\* Subscription.operationFinished.subscribe, for client c
Subscribe(c) ==
    /\ server.state = "running"
    /\ Len(handles) < MaxHandles
    /\ SetWorld(asyncIterator(World, Len(handles) + 1))
    /\ handles' = Append(handles, [client |-> c, open |-> TRUE,
                                   born |-> Len(published), died |-> 0,
                                   sent |-> 0])
    /\ UNCHANGED <<dispatchVars, calls, server>>

Closed(hs) ==
    [h \in DOMAIN handles |->
        IF h \in hs THEN [handles[h] EXCEPT !.open = FALSE, !.died = Len(published)]
        ELSE handles[h]]

\* the client completes the subscription h
Unsubscribe(h) ==
    /\ h \in DOMAIN handles
    /\ handles[h].open
    /\ SetWorld(iteratorReturn(World, {h}))
    /\ handles' = Closed({h})
    /\ UNCHANGED <<dispatchVars, calls, server>>

\* the close of a socket, were the iterators on it left listening
ConnectionCloseLeaks(c) ==
    LET hs == {h \in DOMAIN handles : handles[h].open /\ handles[h].client = c}
    IN  /\ hs # {}
        /\ SetWorld(World)
        /\ handles' = Closed(hs)
        /\ UNCHANGED <<dispatchVars, calls, server>>

\* the socket of client c closes, with every subscription open on it
ConnectionClose(c) ==
    LET hs == {h \in DOMAIN handles : handles[h].open /\ handles[h].client = c}
    IN  /\ hs # {}
        /\ SetWorld(iteratorReturn(World, hs))
        /\ handles' = Closed(hs)
        /\ UNCHANGED <<dispatchVars, calls, server>>

\* time passes: every pending timer has TickMs less to wait
Tick ==
    /\ \E tm \in timers : tm.remaining > 0
    /\ timers' = {[tm EXCEPT !.remaining = IF @ > TickMs THEN @ - TickMs ELSE 0] :
                    tm \in timers}
    /\ UNCHANGED <<dispatchVars, calls, published, handles, subscribers, inbox,
                   server>>

\* the subscription loop of graphql-ws takes the next event queued on the
\* iterator h and sends it on the socket of its client
SendNext(h) ==
    /\ h \in DOMAIN handles
    /\ handles[h].open
    /\ handles[h].sent < Len(inbox[h])
    /\ handles' = [handles EXCEPT ![h].sent = @ + 1]
    /\ UNCHANGED <<dispatchVars, calls, timers, published, subscribers, inbox,
                   server>>

\* a failed send, were it to take every socket of the server down
SendFailsClosesAll(h) ==
    /\ h \in DOMAIN handles
    /\ handles[h].open
    /\ handles[h].sent < Len(inbox[h])
    /\ LET hs == {g \in DOMAIN handles : handles[g].open}
       IN  /\ SetWorld(iteratorReturn(World, hs))
           /\ handles' = Closed(hs)
    /\ UNCHANGED <<dispatchVars, calls, server>>

\* sending the next event of h fails: graphql-ws closes the socket the
\* send was made on, and with it the subscriptions of that client
SendFails(h) ==
    /\ h \in DOMAIN handles
    /\ handles[h].open
    /\ handles[h].sent < Len(inbox[h])
    /\ ConnectionClose(handles[h].client)

\* apolloServer.stop(): ApolloServerPluginDrainHttpServer stops the HTTP
\* server taking requests, and drainServer() awaits
\* wsServerCleanup.dispose(), which closes every socket.  The timers of
\* mockLongLastingOperation are not touched: their handles are kept nowhere
\* and nothing calls clearTimeout.  events is the number of events published
\* up to then.
drainServer ==
    /\ server.state = "running"
    /\ LET hs == {h \in DOMAIN handles : handles[h].open}
       IN  /\ SetWorld(iteratorReturn(World, hs))
           /\ handles' = Closed(hs)
    /\ server' = [state |-> "drained", events |-> Len(published)]
    /\ UNCHANGED <<dispatchVars, calls>>

-----------------------------------------------------------------------------

Init ==
    /\ rev \in Revisions
    /\ invocations = EmptyBag
    /\ calls = <<>>
    /\ timers = {}
    /\ published = <<>>
    /\ handles = <<>>
    /\ subscribers = {}
    /\ inbox = <<>>
    /\ server = [state |-> "running", events |-> 0]

NextDispatch ==
    \/ \E op \in Operations(rev), req \in InboundRequests, v \in ArgValues :
          Invoke(op, req, v)
    \/ \E inv \in BagToSet(invocations), response \in SuccessResponses :
          BackendSucceeds(inv, response)
    \/ \E inv \in BagToSet(invocations), error \in AxiosErrors :
          BackendFails(inv, error)
    \/ \E inv \in BagToSet(invocations) : Discard(inv)

\* the resolvers alone, the broker idle
SpecDispatch == Init /\ [][NextDispatch]_vars

NextBroker ==
    \/ \E name \in Names : scheduleOperation(name)
    \/ \E tm \in timers : TimerFires(tm)
    \/ \E c \in Clients : Subscribe(c)
    \/ \E h \in DOMAIN handles : Unsubscribe(h)
    \/ \E c \in Clients : ConnectionClose(c)
    \/ Tick

\* scheduleOperation, the timers and the subscriptions alone
\* (both revisions define them alike: the one of src/index.js is taken)
InitBroker == Init /\ rev = "index"

SpecBroker == InitBroker /\ [][NextBroker]_vars

NextTimers ==
    \/ \E name \in Names : scheduleOperation(name)
    \/ \E tm \in timers : TimerFires(tm)
    \/ \E c \in Clients : handles = <<>> /\ Subscribe(c)
    \/ \E h \in DOMAIN handles : Unsubscribe(h)
    \/ Tick
    \/ Invoke("post_login", NoCredential, "x")
    \/ \E inv \in BagToSet(invocations) : BackendFails(inv, TransportError)
    \/ \E inv \in BagToSet(invocations) : Discard(inv)

\* the timers next to one subscription and to post_login calls that fail,
\* on an event loop that keeps running: time passes while a timer waits, and
\* a timer that is due runs its callback
SpecTimersFair ==
    /\ InitBroker
    /\ [][NextTimers]_vars
    /\ WF_vars(Tick)
    /\ WF_vars(\E tm \in timers : TimerFires(tm))

NextShutdown == NextBroker \/ drainServer

\* the broker of a server that may be stopped
SpecShutdown == InitBroker /\ [][NextShutdown]_vars

NextDelivery ==
    \/ \E name \in Names : calls = <<>> /\ scheduleOperation(name)
    \/ \E tm \in timers : TimerFires(tm)
    \/ \E c \in Clients : Subscribe(c)
    \/ \E h \in DOMAIN handles : Unsubscribe(h)
    \/ \E c \in Clients : ConnectionClose(c)
    \/ Tick
    \/ \E h \in DOMAIN handles : SendNext(h)
    \/ \E h \in DOMAIN handles : SendFails(h)

\* one scheduled operation, and the sending of its event to the clients
SpecDelivery == InitBroker /\ [][NextDelivery]_vars

NextFrame ==
    \/ \E op \in Operations(rev) : Invoke(op, Credential(<<"t","1">>), "x")
    \/ \E inv \in BagToSet(invocations), response \in SuccessResponses :
          BackendSucceeds(inv, response)
    \/ \E inv \in BagToSet(invocations), error \in AxiosErrors :
          BackendFails(inv, error)
    \/ \E inv \in BagToSet(invocations) : Discard(inv)
    \/ \E name \in Names : calls = <<>> /\ scheduleOperation(name)
    \/ \E tm \in timers : TimerFires(tm)
    \/ \E c \in Clients : handles = <<>> /\ Subscribe(c)
    \/ \E h \in DOMAIN handles : Unsubscribe(h)
    \/ Tick

\* the resolvers next to one scheduled operation and one subscription
SpecFrame == Init /\ [][NextFrame]_vars

Next == NextDispatch \/ NextDelivery \/ NextShutdown

Spec == Init /\ [][Next]_vars


-----------------------------------------------------------------------------
(* Properties of the resolvers *)

Invs == BagToSet(invocations)

HasCredential(req) == getAuthorizationHeader(req).t # "undefined"

\* the failure body of a rejected call; undefined when there was no response
FailureBody(inv) == OptGet(Get(inv.outcome.value, "response"), "data")

\* the operations the interface table marks as requiring auth
AuthRequiredOps == {"check", "get_userID", "post_matching", "post_ready", "post_result"}

AuthMissingError == Str(<<"A","u","t","h","M","i","s","s","i","n","g","E","r","r","o","r">>)

\* C1: an auth-required operation invoked without a credential ends in
\* AuthMissingError and has issued no backend call.
C1_NoCredentialNoBackendCall ==
    \A inv \in Invs :
        (inv.op \in AuthRequiredOps /\ ~HasCredential(inv.req)) =>
            /\ inv.calls = 0
            /\ inv.pc = "thrown"
            /\ inv.error = AuthMissingError

\* C2: when the backend call fails with a body whose reason is the string
\* R, the invocation fails with an error whose message is exactly R.
C2_ReasonIsTheMessage ==
    \A inv \in Invs :
        \A R \in Reasons :
            (inv.outcome.state = "rejected"
                /\ Get(FailureBody(inv), "reason") = Str(R)) =>
                    (inv.pc = "thrown" /\ inv.error = Str(R))

C2_Witness ==
    \E inv \in Invs :
        /\ inv.op = "post_login"
        /\ inv.outcome.state = "rejected"
        /\ Get(FailureBody(inv), "reason") = Str(<<"r","2">>)
        /\ inv.error = Str(<<"r","2">>)

RequestFailed == <<"r","e","q","u","e","s","t"," ","f","a","i","l","e","d">>

\* the message the error normalizer is specified to pick
NormalizedMessage(body) ==
    IF Get(body, "reason").t = "string" THEN Get(body, "reason").s
    ELSE IF Get(body, "message").t = "string" THEN Get(body, "message").s
    ELSE RequestFailed

\* C3: the error message is the failure body's reason if present, otherwise
\* its message if present, otherwise the generic "request failed".
C3_ExtractionOrder ==
    \A inv \in Invs :
        inv.outcome.state = "rejected" =>
            (inv.pc = "thrown"
                /\ inv.error = Str(NormalizedMessage(FailureBody(inv))))

\* C8: every invocation has issued exactly one backend call, while its call
\* is pending, after it succeeded and after it failed.
C8_ExactlyOneBackendCall ==
    \A inv \in Invs : inv.calls = 1

C8_Witness ==
    \E inv \in Invs :
        inv.op = "post_result" /\ inv.outcome.state = "rejected"
            /\ inv.pc = "thrown" /\ inv.calls = 1

\* C9: an invocation whose backend call failed ends with an error and no
\* value; one whose call succeeded ends with a value and no error.
C9_SucceedsOrFails ==
    \A inv \in Invs :
        /\ inv.outcome.state = "rejected" =>
              (inv.pc = "thrown" /\ inv.result = Undefined
                  /\ inv.error.t = "string")
        /\ inv.outcome.state = "fulfilled" =>
              (inv.pc = "returned" /\ inv.error = Undefined
                  /\ inv.result.t # "undefined")
        /\ inv.outcome.state = "pending" => inv.pc = "awaiting"

C9_Witness ==
    \E inv \in Invs :
        inv.op = "get_rooms" /\ inv.outcome.state = "rejected"
            /\ inv.pc = "thrown"

\* C10: an auth-required operation invoked with credential t sends the
\* authorization header "Bearer " followed by t.
C10_BearerHeader ==
    \A inv \in Invs :
        (Table(rev)[inv.op].auth /\ HasCredential(inv.req)) =>
            Get(inv.request.headers, "Authorization") =
                Str(<<"B","e","a","r","e","r"," ">>
                        \o getAuthorizationHeader(inv.req).s)


-----------------------------------------------------------------------------
(* Properties of scheduleOperation and the subscription *)

\* sub occurs in s
Contains(s, sub) ==
    \E i \in 0..Len(s) :
        i + Len(sub) <= Len(s) /\ SubSeq(s, i + 1, i + Len(sub)) = sub

\* how often event e was pushed to iterator h
Count(h, e) == Cardinality({k \in DOMAIN inbox[h] : inbox[h][k].ev = e})

\* iterator h was open when event e was published: opened before, and not
\* closed before
LiveAt(h, e) ==
    handles[h].born < e /\ (handles[h].open \/ e <= handles[h].died)

Received(c, e) ==
    \E h \in DOMAIN handles : handles[h].client = c /\ Count(h, e) > 0

EventsOf(i) == {e \in DOMAIN published : published[e].call = i}

TimersOf(i) == {tm \in timers : tm.call = i}

\* C4: a scheduleOperation call returns its acknowledgement, which contains
\* the name, in the step that accepts it, with the timer still to wait; the
\* event of a call is published in a later step than the one that returned
\* its acknowledgement.
C4_AckBeforePublish ==
    [][ /\ \A i \in (DOMAIN calls') \ (DOMAIN calls) :
              /\ Contains(calls'[i].ack, calls'[i].name)
              /\ \E tm \in timers' : tm.call = i /\ tm.remaining > 0
              /\ published' = published
        /\ \A e \in (DOMAIN published') \ (DOMAIN published) :
              /\ published'[e].call \in DOMAIN calls
              /\ Contains(calls[published'[e].call].ack, published'[e].payload.name)
      ]_vars

C4_Witness ==
    \E e \in DOMAIN published :
        /\ published[e].payload.name = <<"B">>
        /\ calls[published[e].call].ack =
             <<"O","p","e","r","a","t","i","o","n",":"," ","B",
               " ","s","c","h","e","d","u","l","e","d","!">>

\* C5: every accepted call has one event, published or still to come, never
\* two; the event carries the call's name; it was pushed exactly once to
\* every iterator open when it was published, whoever the client, and to no
\* other.
C5_BroadcastExactlyOnce ==
    /\ \A i \in DOMAIN calls :
          Cardinality(EventsOf(i)) + Cardinality(TimersOf(i)) = 1
    /\ \A e \in DOMAIN published :
          /\ published[e].payload.name = calls[published[e].call].name
          /\ published[e].subs = {h \in DOMAIN handles : LiveAt(h, e)}
          /\ \A h \in DOMAIN handles :
                Count(h, e) = IF LiveAt(h, e) THEN 1 ELSE 0

C5_Witness ==
    \E e \in DOMAIN published :
        \E h1, h2 \in published[e].subs :
            /\ handles[h1].client # handles[h2].client
            /\ Count(h1, e) = 1
            /\ Count(h2, e) = 1

\* C6: an iterator holds only events published while it was open, so a
\* client receives no event that fired while it had no open subscription:
\* not after subscribing late, not after unsubscribing and resubscribing,
\* not after disconnecting, and an event nobody listened to reaches nobody.
C6_NoReplay ==
    /\ \A h \in DOMAIN handles :
          \A k \in DOMAIN inbox[h] :
              /\ inbox[h][k].ev \in DOMAIN published
              /\ LiveAt(h, inbox[h][k].ev)
    /\ \A c \in Clients :
          \A e \in DOMAIN published :
              Received(c, e) =>
                  \E h \in DOMAIN handles : handles[h].client = c /\ LiveAt(h, e)
    /\ \A e \in DOMAIN published :
          published[e].subs = {} => \A c \in Clients : ~Received(c, e)

\* a client unsubscribed, the event fired, the client subscribed again
C6_Witness ==
    \E c \in Clients :
        \E e \in DOMAIN published :
            \E h1, h2 \in DOMAIN handles :
                /\ handles[h1].client = c /\ handles[h2].client = c
                /\ ~handles[h1].open /\ handles[h1].died < e
                /\ handles[h2].open /\ handles[h2].born >= e
                /\ ~Received(c, e)

\* C7: the timer of one call leaves the other calls alone: a step that
\* publishes publishes one event, named as its own call was, removes that
\* call's timer and no other, and keeps the events published before; a step
\* that accepts a call keeps every pending timer as it was.
C7_IndependentCompletions ==
    [][ /\ Len(published') # Len(published) =>
              /\ Len(published') = Len(published) + 1
              /\ SubSeq(published', 1, Len(published)) = published
              /\ LET event == published'[Len(published')]
                 IN  /\ event.call \in DOMAIN calls
                     /\ event.payload.name = calls[event.call].name
                     /\ \E tm \in timers :
                           tm.call = event.call /\ timers' = timers \ {tm}
        /\ Len(calls') # Len(calls) =>
              /\ timers \subseteq timers'
              /\ Cardinality(timers') = Cardinality(timers) + 1
              /\ published' = published
      ]_vars

\* two calls with distinct names were pending together and both completed
C7_Witness ==
    \E e1, e2 \in DOMAIN published :
        LET i == published[e1].call
            j == published[e2].call
        IN  /\ i < j
            /\ calls[i].name # calls[j].name
            /\ calls[j].before < e1
            /\ published[e1].payload.name = calls[i].name
            /\ published[e2].payload.name = calls[j].name


-----------------------------------------------------------------------------
(* The interface table and what the resolvers send *)

\* the rows of the external-interface table that call the backend
InterfaceTable ==
    [post_login    |-> [auth |-> FALSE, method |-> "POST", path |-> "/login",
                        fields |-> {"email", "password"}],
     post_register |-> [auth |-> FALSE, method |-> "POST", path |-> "/register",
                        fields |-> {"email", "name", "password"}],
     check         |-> [auth |-> TRUE, method |-> "GET", path |-> "/check",
                        fields |-> {}],
     get_userID    |-> [auth |-> TRUE, method |-> "GET", path |-> "/user",
                        fields |-> {}],
     get_rooms     |-> [auth |-> FALSE, method |-> "GET", path |-> "/rooms",
                        fields |-> {}],
     post_matching |-> [auth |-> TRUE, method |-> "POST", path |-> "/matching",
                        fields |-> {"is_leave"}],
     post_ready    |-> [auth |-> TRUE, method |-> "POST", path |-> "/ready",
                        fields |-> {"room_id"}],
     post_result   |-> [auth |-> TRUE, method |-> "POST", path |-> "/result",
                        fields |-> {"room_id", "score"}],
     post_shake    |-> [auth |-> FALSE, method |-> "POST", path |-> "/shake",
                        fields |-> {"power"}]]

\* the backend's origin: a path of the table is taken from there
BackendOrigin == "http://localhost:8080"

\* the URL a request goes to
RequestUrl(request) == request.base \o request.path

\* the names of the fields of the body a request carries
PayloadFields(request) ==
    IF request.data.t = "object" THEN DOMAIN request.data.f ELSE {}

\* whether a request carries an Authorization header
ForwardsAuthorization(request) ==
    Get(request.headers, "Authorization").t # "undefined"

\* C11: every operation of the interface table issues its backend call with
\* the method and the path of its row, a body of exactly the row's payload
\* fields, and an Authorization header exactly when the row requires auth.
C11_RequestFollowsTable ==
    \A inv \in Invs :
        inv.op \in DOMAIN InterfaceTable =>
            LET row == InterfaceTable[inv.op]
            IN  /\ inv.request.method = row.method
                /\ RequestUrl(inv.request) = BackendOrigin \o row.path
                /\ PayloadFields(inv.request) = row.fields
                /\ ForwardsAuthorization(inv.request) = row.auth

\* what C11 states, of the resolvers of src/index.js alone
C11_IndexFollowsTable == rev = "index" => C11_RequestFollowsTable


\* C12: get_rooms, its backend call fulfilled, has returned the body of the
\* backend's response as it came, whatever that body is.
C12_RoomsUnmodified ==
    \A inv \in Invs :
        (inv.op = "get_rooms" /\ inv.outcome.state = "fulfilled") =>
            /\ inv.pc = "returned"
            /\ inv.result = Get(inv.outcome.value, "data")

\* get_rooms has returned the list of two rooms the backend answered with
C12_Witness ==
    \E inv \in Invs :
        /\ inv.op = "get_rooms"
        /\ inv.outcome.state = "fulfilled"
        /\ Get(inv.outcome.value, "data") = BodyRooms
        /\ inv.result = Arr(<<Str(<<"r","1">>), Str(<<"r","2">>)>>)


-----------------------------------------------------------------------------
(* Properties of the timers, the shutdown and the sending *)

\* C13: every accepted scheduleOperation call is in the end published, on an
\* event loop that keeps running; and no step takes a pending timer away
\* other than the step that publishes its call's event.
C13_TimerAlwaysFires ==
    /\ \A i \in 1..MaxSchedules :
          (i \in DOMAIN calls) ~> (EventsOf(i) # {})
    /\ [][\A tm \in timers :
            \/ \E left \in timers' : left.call = tm.call /\ left.name = tm.name
            \/ \E e \in DOMAIN published' \ DOMAIN published :
                  published'[e].call = tm.call]_vars

\* a call was accepted while another was pending, a client subscribed and
\* left and a backend call failed before either was published, and both
\* calls were published
C13_Witness ==
    /\ Len(calls) = 2
    /\ calls[2].before = 0
    /\ \E h \in DOMAIN handles : ~handles[h].open /\ handles[h].died = 0
    /\ \E inv \in Invs : inv.pc = "thrown"
    /\ EventsOf(1) # {}
    /\ EventsOf(2) # {}


\* C14: once the server was drained no timer is pending, no iterator
\* listens, and no event is published any more.
C14_TeardownReleases ==
    server.state = "drained" =>
        /\ timers = {}
        /\ subscribers = {}
        /\ Len(published) = server.events

\* what the drain does do: no iterator listens and every handle is closed
C14_DrainClosesSubscriptions ==
    server.state = "drained" =>
        /\ subscribers = {}
        /\ \A h \in DOMAIN handles : ~handles[h].open

\* an event of a call accepted before the drain was published after it
C14_PublishedAfterDrain ==
    /\ server.state = "drained"
    /\ \E e \in DOMAIN published :
          e > server.events /\ published[e].call \in DOMAIN calls


\* C15: the iterators listening are exactly those of the subscriptions that
\* are open: none of a subscription completed or of a closed socket remains.
C15_SubscribersAreOpenHandles ==
    subscribers = {h \in DOMAIN handles : handles[h].open}

\* a client's socket closed with its subscription while another client's
\* subscription stays open and listens
C15_Witness ==
    \E g, h \in DOMAIN handles :
        /\ handles[g].client # handles[h].client
        /\ ~handles[g].open
        /\ handles[h].open
        /\ g \notin subscribers
        /\ h \in subscribers


\* C16: a step that accepts a scheduleOperation call touches no resolver
\* invocation and changes nothing of the broker but the pending timers, to
\* which it adds one; a step of a backend-calling operation (its call, the
\* call's success, the call's failure) leaves the pending timers, the
\* listening iterators and what was published as they were.
C16_Frames ==
    [][ /\ Len(calls') # Len(calls) =>
              /\ invocations' = invocations
              /\ published' = published
              /\ subscribers' = subscribers
              /\ handles' = handles
              /\ inbox' = inbox
              /\ timers \subseteq timers'
              /\ Cardinality(timers') = Cardinality(timers) + 1
        /\ invocations' # invocations =>
              /\ timers' = timers
              /\ subscribers' = subscribers
              /\ published' = published
              /\ inbox' = inbox
              /\ calls' = calls
      ]_vars

\* the backend call of post_login has failed, next to a pending timer and a
\* listening iterator
C16_Witness ==
    /\ timers # {}
    /\ subscribers # {}
    /\ \E inv \in Invs : inv.op = "post_login" /\ inv.pc = "thrown"


\* C17: a subscription that ends with an event not sent, as it does when the
\* send on its socket fails, takes nothing from the other clients: each of
\* their subscriptions stays as it was, open or closed, with the events
\* queued for it, sent or yet to be sent; the schedule call stays accepted
\* with its acknowledgement, and what was published stays published.
C17_FailureIsLocal ==
    [][\A h \in DOMAIN handles :
          (handles[h].open /\ ~handles'[h].open
              /\ handles[h].sent < Len(inbox[h])) =>
                /\ calls' = calls
                /\ published' = published
                /\ timers' = timers
                /\ \A g \in DOMAIN handles :
                      handles[g].client # handles[h].client =>
                          /\ handles'[g] = handles[g]
                          /\ inbox'[g] = inbox[g]
                          /\ (g \in subscribers') = (g \in subscribers)
      ]_vars

\* one event went to the iterators of two clients: the subscription of one
\* ended without the event sent, the other client was sent it afterwards
C17_Witness ==
    \E g, h \in DOMAIN handles :
        /\ handles[g].client # handles[h].client
        /\ Len(published) = 1
        /\ {g, h} \subseteq published[1].subs
        /\ ~handles[h].open
        /\ handles[h].sent = 0
        /\ handles[h].died = 1
        /\ handles[g].open
        /\ handles[g].sent = 1


-----------------------------------------------------------------------------
(* The credential and the operations without auth *)

\* the operations the interface table marks as requiring no auth, of those
\* src/index.js resolves
NoAuthOps == {"post_login", "post_register", "get_rooms"}

\* C18: the request an operation without auth issues carries no
\* Authorization header, and is the request the same operation issues on the
\* same arguments for any other inbound request, with or without a token.
C18_CredentialNotRead ==
    \A inv \in Invs :
        inv.op \in NoAuthOps =>
            /\ ~ForwardsAuthorization(inv.request)
            /\ \A other \in InboundRequests :
                  Start(rev, inv.op, other, inv.args).request = inv.request

\* post_login was called on a request that carries a token and has issued
\* its backend call, a POST with no header
C18_Witness ==
    \E inv \in Invs :
        /\ inv.op = "post_login"
        /\ inv.req = Credential(<<"t","1">>)
        /\ inv.calls = 1
        /\ inv.request.method = "POST"
        /\ inv.request.headers = EmptyObj


-----------------------------------------------------------------------------
(* The count of calls, timers and events *)

\* C19: the events published so far and the timers pending are together as
\* many as the calls accepted so far, and every event published carries the
\* name its call was given.
C19_CallsAreTimersPlusEvents ==
    /\ Len(published) + Cardinality(timers) = Len(calls)
    /\ \A e \in DOMAIN published :
          /\ published[e].call \in DOMAIN calls
          /\ published[e].payload.name = calls[published[e].call].name

\* of two calls with different names one is published, the other pending
C19_Witness ==
    /\ Len(calls) = 2
    /\ calls[1].name # calls[2].name
    /\ Len(published) = 1
    /\ Cardinality(timers) = 1
    /\ published[1].payload.name = calls[published[1].call].name

=============================================================================
